---- MODULE Spec2Model ----
(***************************************************************************)
(* A model of app.py: a Flask console over a remote drive.                 *)
(*                                                                         *)
(* The process holds one global, token_cache, and serves each request on   *)
(* a thread of its own (app.run() serves threaded), so the steps of two    *)
(* handlers interleave at every access to a shared object: token_cache,    *)
(* the remote drive, and the files of the temporary directory.             *)
(*                                                                         *)
(* Strings that the code takes apart (paths) are sequences of characters;  *)
(* a URL is the sequence of the pieces its f-string concatenates, the      *)
(* path's characters spliced in between.  Byte strings are sequences of    *)
(* byte values.  Python's None is PyNone where a string is expected and    *)
(* None where a path is expected.                                          *)
(***************************************************************************)
EXTENDS Integers, Sequences, FiniteSets, TLC

\* ------------------------------------------------------------------ bounds
\* Requests served in one process run.
MaxRequests == 3
\* Longest path typed into the "New Folder Path" field.
MaxPathLen == 3

\* Request threads of the server.
Threads == {1, 2}

\* ------------------------------------------------------------------ values
PyNone == "#None"
None == <<"#None">>

Alphabet == {"/", "a", "b"}
Strings(n) == UNION {[1..k -> Alphabet] : k \in 0..n}

\* Remote paths used by /upload, /delete and /download, in the order the
\* remote API lists them.
FilePathSeq == << <<"/", "b", "/", "a">> >>
FilePaths == {FilePathSeq[i] : i \in 1..Len(FilePathSeq)}
\* Uploaded byte strings: b"h" and b"hi".
Payloads == {<<104>>, <<104, 105>>}
\* Access tokens the identity provider may issue.
Tokens == {"t1", "t2"}
\* The body of a non-2xx answer of the remote API: b"{}".
ErrBody == <<123, 125>>
\* A path of the drive, or a file of the temporary directory, that does not exist.
Absent == <<-1>>
\* The file field of a form that has none.
NoFile == <<-2>>

Routes == {"/", "/upload", "/mkdir", "/delete", "/download"}

VARIABLES
    AUTH_FLOW,      \* "app" or "device"
    CLIENT_SECRET,  \* a secret, or PyNone
    TARGET_USER,    \* a user, or PyNone
    token_cache,    \* the global: PyNone or a token
    pc,             \* each thread's position
    route,          \* the route of the request a thread serves
    req,            \* the request's parameters, as the handler read them
    seen,           \* get_token: the value of token_cache that line 70 tested
    quiet,          \* get_token: line 70 found a credential, nobody acquiring
    flow,           \* get_token: the device flow
    result,         \* get_token: the exchange's access_token, or PyNone
    acq,            \* token exchanges this request made
    wr,             \* writes of token_cache this request made
    token,          \* the handler's local token
    gotToken,       \* get_token() has returned to the handler
    calls,          \* the storage calls this request has issued
    r,              \* the answer to the storage call
    resp,           \* the handler's response
    drive,          \* the remote drive: path -> bytes
    tmp,            \* the temporary directory: file name -> bytes
    remote,         \* the identity provider has been called
    nreq            \* requests started

vars == <<AUTH_FLOW, CLIENT_SECRET, TARGET_USER, token_cache, pc, route, req,
          seen, quiet, flow, result, acq, wr, token, gotToken, calls, r,
          resp, drive, tmp, remote, nreq>>

config == <<AUTH_FLOW, CLIENT_SECRET, TARGET_USER>>
gtLocals == <<seen, quiet, flow, result, acq, wr>>
world == <<drive, tmp>>

\* ----------------------------------------------------------------- strings
\* str.rstrip("/")
RECURSIVE RStrip(_)
RStrip(s) ==
    IF s # <<>> /\ s[Len(s)] = "/" THEN RStrip(SubSeq(s, 1, Len(s) - 1)) ELSE s

\* The index of the last "/" of s, 0 when there is none.
LastSlash(s) ==
    LET I == {i \in 1..Len(s) : s[i] = "/"}
    IN  IF I = {} THEN 0 ELSE CHOOSE i \in I : \A j \in I : j <= i

\* The index of the first "/" of s, 0 when there is none.
FirstSlash(s) ==
    LET I == {i \in 1..Len(s) : s[i] = "/"}
    IN  IF I = {} THEN 0 ELSE CHOOSE i \in I : \A j \in I : i <= j

\* str.partition("/"): the split at the first "/".
Partition(s) ==
    LET i == FirstSlash(s)
    IN  IF i = 0 THEN <<s, <<>>, <<>>>>
        ELSE <<SubSeq(s, 1, i - 1), <<"/">>, SubSeq(s, i + 1, Len(s))>>

\* str.rpartition("/"): (head, sep, tail), split at the last "/".
RPartition(s) ==
    LET i == LastSlash(s)
    IN  IF i = 0 THEN <<<<>>, <<>>, s>>
        ELSE <<SubSeq(s, 1, i - 1), <<"/">>, SubSeq(s, i + 1, Len(s))>>

\* os.path.basename
Basename(p) == SubSeq(p, LastSlash(p) + 1, Len(p))

\* How an f-string renders a string-valued variable, and a path-valued one.
FmtS(x) == IF x = PyNone THEN "None" ELSE x
FmtP(p) == IF p = None THEN <<"None">> ELSE p

\* Python's truth value of token_cache.
Truthy(x) == x # PyNone

GRAPH == "https://graph.microsoft.com/v1.0"

drive_prefix ==
    IF AUTH_FLOW = "app" THEN <<"/users/", FmtS(TARGET_USER), "/drive">>
    ELSE <<"/me/drive">>

AuthHeaderNoScheme(tok) == <<FmtS(tok)>>
AuthHeader(tok) == <<"Bearer ", FmtS(tok)>>

\* What the remote API accepts: a bearer token the identity provider issued.
Authorized(auth) == \E tk \in Tokens : auth = <<"Bearer ", tk>>

NoJson == [none |-> TRUE]
NoResp == [kind |-> "none", body |-> <<>>]
NoAnswer == [status |-> 0, content |-> <<>>]
NoReq == [path |-> None, file |-> NoFile]
NoFlow == [none |-> TRUE]

TypeOK ==
    /\ AUTH_FLOW \in {"app", "device"}
    /\ token_cache \in Tokens \cup {PyNone}
    /\ pc \in [Threads -> {"idle", "gt_check", "gt_hit", "gt_app", "gt_initiate",
                           "gt_print", "gt_wait", "gt_write", "gt_return",
                           "handler", "dl_open", "dl_write", "dl_send", "done"}]
    /\ route \in [Threads -> Routes \cup {"?"}]
    /\ nreq \in 0..MaxRequests
    /\ \A t \in Threads : Len(calls[t]) <= 1

\* The environment as load_dotenv() left it: device mode, or app mode with
\* both of CLIENT_SECRET and TARGET_USER set or one of them missing.
Init ==
    /\ AUTH_FLOW \in {"app", "device"}
    /\ CLIENT_SECRET \in {"secret", PyNone}
    /\ TARGET_USER \in {"user@domain.com", PyNone}
    /\ AUTH_FLOW = "device" => CLIENT_SECRET = PyNone /\ TARGET_USER = PyNone
    /\ CLIENT_SECRET # PyNone \/ TARGET_USER # PyNone \/ AUTH_FLOW = "device"
    /\ token_cache = PyNone
    /\ pc = [t \in Threads |-> "idle"]
    /\ route = [t \in Threads |-> "?"]
    /\ req = [t \in Threads |-> NoReq]
    /\ seen = [t \in Threads |-> PyNone]
    /\ quiet = [t \in Threads |-> FALSE]
    /\ flow = [t \in Threads |-> NoFlow]
    /\ result = [t \in Threads |-> PyNone]
    /\ acq = [t \in Threads |-> 0]
    /\ wr = [t \in Threads |-> 0]
    /\ token = [t \in Threads |-> PyNone]
    /\ gotToken = [t \in Threads |-> FALSE]
    /\ calls = [t \in Threads |-> <<>>]
    /\ r = [t \in Threads |-> NoAnswer]
    /\ resp = [t \in Threads |-> NoResp]
    /\ drive = [p \in FilePaths |-> Absent]
    /\ tmp = [f \in {Basename(p) : p \in FilePaths} |-> Absent]
    /\ remote = FALSE
    /\ nreq = 0

\* A request arrives and a thread enters its handler, whose first statement
\* calls get_token(). No step of get_token() reads the request: its route and
\* parameters are drawn where the handler first reads them.
Start(t) ==
    /\ pc[t] \in {"idle", "done"}
    /\ nreq < MaxRequests
    /\ route' = [route EXCEPT ![t] = "?"]
    /\ nreq' = nreq + 1
    /\ pc' = [pc EXCEPT ![t] = "gt_check"]
    /\ req' = [req EXCEPT ![t] = NoReq]
    /\ seen' = [seen EXCEPT ![t] = PyNone]
    /\ quiet' = [quiet EXCEPT ![t] = FALSE]
    /\ flow' = [flow EXCEPT ![t] = NoFlow]
    /\ result' = [result EXCEPT ![t] = PyNone]
    /\ acq' = [acq EXCEPT ![t] = 0]
    /\ wr' = [wr EXCEPT ![t] = 0]
    /\ token' = [token EXCEPT ![t] = PyNone]
    /\ gotToken' = [gotToken EXCEPT ![t] = FALSE]
    /\ calls' = [calls EXCEPT ![t] = <<>>]
    /\ r' = [r EXCEPT ![t] = NoAnswer]
    /\ resp' = [resp EXCEPT ![t] = NoResp]
    /\ UNCHANGED <<config, token_cache, world, remote>>

\* ---------------------------------------------------------------- get_token
\* A get_token() call that found the cache empty and has not yet written it.
InFlight(t) == pc[t] \in {"gt_app", "gt_initiate", "gt_print", "gt_wait", "gt_write"}

\* An unhandled exception ends the request.
Fault(t, what) ==
    /\ resp' = [resp EXCEPT ![t] = [kind |-> "fault", body |-> what]]
    /\ pc' = [pc EXCEPT ![t] = "done"]

\* GtCheck without the test of line 70: every call acquires.
GtCheckNoCache(t) ==
    /\ pc[t] = "gt_check"
    /\ seen' = [seen EXCEPT ![t] = token_cache]
    /\ quiet' = [quiet EXCEPT ![t] =
                   Truthy(token_cache) /\ \A u \in Threads \ {t} : ~InFlight(u)]
    /\ pc' = [pc EXCEPT ![t] = IF AUTH_FLOW = "app" THEN "gt_app" ELSE "gt_initiate"]
    /\ UNCHANGED <<config, token_cache, route, req, flow, result, acq, wr, token,
                   gotToken, calls, r, resp, world, remote, nreq>>

\* Line 70: if token_cache. Lines 73 and 75 choose the flow on a miss.
GtCheck(t) ==
    /\ pc[t] = "gt_check"
    /\ seen' = [seen EXCEPT ![t] = token_cache]
    /\ quiet' = [quiet EXCEPT ![t] =
                   Truthy(token_cache) /\ \A u \in Threads \ {t} : ~InFlight(u)]
    /\ pc' = [pc EXCEPT ![t] =
                IF Truthy(token_cache) THEN "gt_hit"
                ELSE IF AUTH_FLOW = "app" THEN "gt_app" ELSE "gt_initiate"]
    /\ UNCHANGED <<config, token_cache, route, req, flow, result, acq, wr, token,
                   gotToken, calls, r, resp, world, remote, nreq>>

\* Line 71: return token_cache (a second read of the global).
GtHit(t) ==
    /\ pc[t] = "gt_hit"
    /\ token' = [token EXCEPT ![t] = token_cache]
    /\ gotToken' = [gotToken EXCEPT ![t] = TRUE]
    /\ pc' = [pc EXCEPT ![t] = "handler"]
    /\ UNCHANGED <<config, token_cache, route, req, gtLocals, calls, r, resp,
                   world, remote, nreq>>

\* Lines 76-77: acquire_token_for_client. The identity provider answers with
\* an access token or with an error, which has none.
GtApp(t) ==
    /\ pc[t] = "gt_app"
    /\ \E res \in Tokens \cup {PyNone} : result' = [result EXCEPT ![t] = res]
    /\ acq' = [acq EXCEPT ![t] = @ + 1]
    /\ remote' = TRUE
    /\ pc' = [pc EXCEPT ![t] = "gt_write"]
    /\ UNCHANGED <<config, token_cache, route, req, seen, quiet, flow, wr, token,
                   gotToken, calls, r, resp, world, nreq>>

\* Line 82: initiate_device_flow. A refused flow carries no message.
GtInitiate(t) ==
    /\ pc[t] = "gt_initiate"
    /\ \E ok \in BOOLEAN :
         flow' = [flow EXCEPT ![t] =
                    IF ok THEN [message |-> "To sign in, enter the code", shown |-> FALSE]
                    ELSE [error |-> "invalid_client"]]
    /\ acq' = [acq EXCEPT ![t] = @ + 1]
    /\ remote' = TRUE
    /\ pc' = [pc EXCEPT ![t] = "gt_print"]
    /\ UNCHANGED <<config, token_cache, route, req, seen, quiet, result, wr, token,
                   gotToken, calls, r, resp, world, nreq>>

\* Lines 83-84: print(flow["message"]); a KeyError when there is none.
GtPrint(t) ==
    /\ pc[t] = "gt_print"
    /\ IF "message" \in DOMAIN flow[t]
       THEN /\ flow' = [flow EXCEPT ![t].shown = TRUE]
            /\ pc' = [pc EXCEPT ![t] = "gt_wait"]
            /\ UNCHANGED resp
       ELSE /\ Fault(t, "KeyError")
            /\ UNCHANGED flow
    /\ UNCHANGED <<config, token_cache, route, req, seen, quiet, result, acq, wr,
                   token, gotToken, calls, r, world, remote, nreq>>

\* Line 85: acquire_token_by_device_flow blocks until the user authorizes,
\* denies, or the flow times out.
GtWait(t) ==
    /\ pc[t] = "gt_wait"
    /\ \E res \in Tokens \cup {PyNone} : result' = [result EXCEPT ![t] = res]
    /\ acq' = [acq EXCEPT ![t] = @ + 1]
    /\ remote' = TRUE
    /\ pc' = [pc EXCEPT ![t] = "gt_write"]
    /\ UNCHANGED <<config, token_cache, route, req, seen, quiet, flow, wr, token,
                   gotToken, calls, r, resp, world, nreq>>

\* Lines 78 and 86: token_cache = result.get("access_token").
GtWrite(t) ==
    /\ pc[t] = "gt_write"
    /\ token_cache' = result[t]
    /\ wr' = [wr EXCEPT ![t] = @ + 1]
    /\ pc' = [pc EXCEPT ![t] = "gt_return"]
    /\ UNCHANGED <<config, route, req, seen, quiet, flow, result, acq, token,
                   gotToken, calls, r, resp, world, remote, nreq>>

\* GtReturn returning the exchange's result instead of the global.
GtReturnResult(t) ==
    /\ pc[t] = "gt_return"
    /\ token' = [token EXCEPT ![t] = result[t]]
    /\ gotToken' = [gotToken EXCEPT ![t] = TRUE]
    /\ pc' = [pc EXCEPT ![t] = "handler"]
    /\ UNCHANGED <<config, token_cache, route, req, gtLocals, calls, r, resp,
                   world, remote, nreq>>

\* Lines 79 and 87: return token_cache.
GtReturn(t) ==
    /\ pc[t] = "gt_return"
    /\ token' = [token EXCEPT ![t] = token_cache]
    /\ gotToken' = [gotToken EXCEPT ![t] = TRUE]
    /\ pc' = [pc EXCEPT ![t] = "handler"]
    /\ UNCHANGED <<config, token_cache, route, req, gtLocals, calls, r, resp,
                   world, remote, nreq>>

get_token(t) ==
    \/ GtCheck(t)
    \/ GtHit(t)
    \/ GtApp(t)
    \/ GtInitiate(t)
    \/ GtPrint(t)
    \/ GtWait(t)
    \/ GtWrite(t)
    \/ GtReturn(t)


\* ------------------------------------------------------------------ handlers
\* requests.<method>(url, headers=..., ...): the call goes out and is answered.
Issue(t, call, answer) ==
    /\ calls' = [calls EXCEPT ![t] = Append(@, call)]
    /\ r' = [r EXCEPT ![t] = answer]

\* The handler returns its response.
Respond(t, kind, body) ==
    /\ resp' = [resp EXCEPT ![t] = [kind |-> kind, body |-> body]]
    /\ pc' = [pc EXCEPT ![t] = "done"]

\* The first component of a path of the drive, and whether it is a folder.
ItemOf(p) ==
    LET rest == SubSeq(p, 2, Len(p))
        i == FirstSlash(rest)
    IN  IF i = 0 THEN [name |-> rest, folder |-> PyNone]
        ELSE [name |-> SubSeq(rest, 1, i - 1), folder |-> "facet"]

\* The remote API's listing of the root: the "value" of its answer.
RootItems ==
    LET present == SelectSeq(FilePathSeq, LAMBDA p : drive[p] # Absent)
    IN  [i \in 1..Len(present) |-> ItemOf(present[i])]

\* Lines 132-148.
index(t) ==
    /\ pc[t] = "handler"
    /\ route' = [route EXCEPT ![t] = "/"]
    /\ LET auth == AuthHeader(token[t])
           url == <<GRAPH>> \o drive_prefix \o <<"/root/children">>
           ok == Authorized(auth)
           items == IF ok THEN RootItems ELSE <<>>
           files == [i \in 1..Len(items) |->
                       [name |-> items[i].name, folder |-> items[i].folder,
                        path |-> <<"/">> \o items[i].name]]
       IN  /\ Issue(t, [method |-> "GET", url |-> url, auth |-> auth,
                        ctype |-> PyNone, data |-> <<>>, json |-> NoJson],
                    [status |-> IF ok THEN 200 ELSE 401, content |-> items])
           /\ Respond(t, "html", files)
    /\ UNCHANGED <<config, token_cache, req, gtLocals, token, gotToken, world,
                   remote, nreq>>

\* Lines 151-161. request.files["file"] and then request.form["remote"] raise
\* a 400 when the field is missing; remote is not read when file is.
upload(t) ==
    /\ pc[t] = "handler"
    /\ route' = [route EXCEPT ![t] = "/upload"]
    /\ \E file \in Payloads \cup {NoFile} :
       \E rem \in IF file = NoFile THEN {None} ELSE FilePaths \cup {None} :
         /\ req' = [req EXCEPT ![t] = [path |-> rem, file |-> file]]
         /\ IF file = NoFile \/ rem = None
            THEN /\ Fault(t, "BadRequestKeyError")
                 /\ UNCHANGED <<calls, r, drive>>
            ELSE LET auth == AuthHeader(token[t])
                     url == <<GRAPH>> \o drive_prefix \o <<"/root:">> \o rem
                            \o <<":/content">>
                     ok == Authorized(auth)
                 IN  /\ Issue(t, [method |-> "PUT", url |-> url, auth |-> auth,
                                  ctype |-> PyNone, data |-> file, json |-> NoJson],
                              [status |-> IF ok THEN 201 ELSE 401,
                               content |-> IF ok THEN <<>> ELSE ErrBody])
                     /\ drive' = IF ok THEN [drive EXCEPT ![rem] = file] ELSE drive
                     /\ Respond(t, "redirect", <<"/">>)
    /\ UNCHANGED <<config, token_cache, gtLocals, token, gotToken, tmp, remote, nreq>>

\* Lines 164-180, for a path field drawn from Inputs.
mkdirOf(t, Inputs) ==
    /\ pc[t] = "handler"
    /\ route' = [route EXCEPT ![t] = "/mkdir"]
    /\ \E p \in Inputs :
         /\ req' = [req EXCEPT ![t] = [path |-> p, file |-> NoFile]]
         /\ IF p = None
            THEN /\ Fault(t, "BadRequestKeyError")
                 /\ UNCHANGED <<calls, r>>
            ELSE LET auth == AuthHeader(token[t])
                     path == RStrip(p)
                     parts == RPartition(path)
                     parent == parts[1]
                     name == parts[3]
                     url == IF parent # <<>>
                            THEN <<GRAPH>> \o drive_prefix \o <<"/root:">> \o parent
                                 \o <<":/children">>
                            ELSE <<GRAPH>> \o drive_prefix \o <<"/root/children">>
                     payload == [name |-> name, folder |-> "{}",
                                 conflictBehavior |-> "rename"]
                     ok == Authorized(auth)
                 IN  /\ Issue(t, [method |-> "POST", url |-> url, auth |-> auth,
                                  ctype |-> "application/json", data |-> <<>>,
                                  json |-> payload],
                              [status |-> IF ok THEN 201 ELSE 401, content |-> <<>>])
                     /\ Respond(t, "redirect", <<"/">>)
    /\ UNCHANGED <<config, token_cache, gtLocals, token, gotToken, world, remote, nreq>>

\* The concurrent specification draws the path from a sample; MkdirSpec below
\* draws it from every string.
MkdirSample == {<<"/", "a", "/", "b">>, None}
mkdir(t) == mkdirOf(t, MkdirSample)

\* delete without its storage call.
deleteNoCall(t) ==
    /\ pc[t] = "handler"
    /\ route' = [route EXCEPT ![t] = "/delete"]
    /\ \E p \in FilePaths \cup {None} :
         req' = [req EXCEPT ![t] = [path |-> p, file |-> NoFile]]
    /\ Respond(t, "redirect", <<"/">>)
    /\ UNCHANGED <<config, token_cache, gtLocals, token, gotToken, calls, r, world,
                   remote, nreq>>

\* Lines 183-191. request.args.get("path") is None when the parameter is missing.
delete(t) ==
    /\ pc[t] = "handler"
    /\ route' = [route EXCEPT ![t] = "/delete"]
    /\ \E p \in FilePaths \cup {None} :
         /\ req' = [req EXCEPT ![t] = [path |-> p, file |-> NoFile]]
         /\ LET auth == AuthHeader(token[t])
                url == <<GRAPH>> \o drive_prefix \o <<"/root:">> \o FmtP(p) \o <<":/">>
                found == p \in FilePaths /\ drive[p] # Absent
                status == IF ~Authorized(auth) THEN 401
                          ELSE IF found THEN 204 ELSE 404
            IN  /\ Issue(t, [method |-> "DELETE", url |-> url, auth |-> auth,
                             ctype |-> PyNone, data |-> <<>>, json |-> NoJson],
                         [status |-> status,
                          content |-> IF status = 204 THEN <<>> ELSE ErrBody])
                /\ drive' = IF status = 204 THEN [drive EXCEPT ![p] = Absent] ELSE drive
                /\ Respond(t, "redirect", <<"/">>)
    /\ UNCHANGED <<config, token_cache, gtLocals, token, gotToken, tmp, remote, nreq>>

\* Lines 195-207: the GET, whose body is kept whatever the status, and
\* os.path.basename(path), a TypeError when path is None.
DownloadGet(t) ==
    /\ pc[t] = "handler"
    /\ route' = [route EXCEPT ![t] = "/download"]
    /\ \E p \in FilePaths \cup {None} :
         /\ req' = [req EXCEPT ![t] = [path |-> p, file |-> NoFile]]
         /\ LET auth == AuthHeader(token[t])
                url == <<GRAPH>> \o drive_prefix \o <<"/root:">> \o FmtP(p)
                       \o <<":/content">>
                found == p \in FilePaths /\ drive[p] # Absent
                status == IF ~Authorized(auth) THEN 401
                          ELSE IF found THEN 200 ELSE 404
            IN  /\ Issue(t, [method |-> "GET", url |-> url, auth |-> auth,
                             ctype |-> PyNone, data |-> <<>>, json |-> NoJson],
                         [status |-> status,
                          content |-> IF status = 200 THEN drive[p] ELSE ErrBody])
                /\ IF p = None
                   THEN Fault(t, "TypeError")
                   ELSE /\ pc' = [pc EXCEPT ![t] = "dl_open"]
                        /\ UNCHANGED resp
    /\ UNCHANGED <<config, token_cache, gtLocals, token, gotToken, world, remote, nreq>>

\* What writing bytes c at offset 0 leaves in a file that holds old.
Overlay(c, old) == c \o SubSeq(old, Len(c) + 1, Len(old))

\* Line 210: open(temp_path, "wb") creates or truncates the file.
DownloadOpen(t) ==
    /\ pc[t] = "dl_open"
    /\ LET filename == Basename(req[t].path)
       IN  tmp' = [tmp EXCEPT ![filename] = <<>>]
    /\ pc' = [pc EXCEPT ![t] = "dl_write"]
    /\ UNCHANGED <<config, token_cache, route, req, gtLocals, token, gotToken,
                   calls, r, resp, drive, remote, nreq>>

\* Line 211 and the end of the with block: the bytes reach the file.
DownloadWrite(t) ==
    /\ pc[t] = "dl_write"
    /\ LET filename == Basename(req[t].path)
       IN  tmp' = [tmp EXCEPT ![filename] = Overlay(r[t].content, @)]
    /\ pc' = [pc EXCEPT ![t] = "dl_send"]
    /\ UNCHANGED <<config, token_cache, route, req, gtLocals, token, gotToken,
                   calls, r, resp, drive, remote, nreq>>

\* Line 213: send_file(temp_path) answers with what the file holds.
DownloadSend(t) ==
    /\ pc[t] = "dl_send"
    /\ Respond(t, "file", tmp[Basename(req[t].path)])
    /\ UNCHANGED <<config, token_cache, route, req, gtLocals, token, gotToken,
                   calls, r, world, remote, nreq>>

download(t) ==
    \/ DownloadGet(t)
    \/ DownloadOpen(t)
    \/ DownloadWrite(t)
    \/ DownloadSend(t)


Next ==
    \E t \in Threads :
        \/ Start(t)
        \/ get_token(t)
        \/ index(t)
        \/ upload(t)
        \/ mkdir(t)
        \/ delete(t)
        \/ download(t)

Spec == Init /\ [][Next]_vars
\* One request after another, the path field of /mkdir drawn from every string
\* of at most MaxPathLen characters.
MkdirInputs == Strings(MaxPathLen) \cup {None}

MkdirNext == Start(1) \/ get_token(1) \/ mkdirOf(1, MkdirInputs)

MkdirSpec == Init /\ [][MkdirNext]_vars

\* ------------------------------------------------------------------- claims
\* token_cache holds a credential and no get_token() call that found it empty
\* is still on its way to write it.
Settled == Truthy(token_cache) /\ \A u \in Threads : ~InFlight(u)

Bearer(tok) == <<"Bearer ", tok>>

\* C1, as stated: a get_token() call made once a credential has been acquired
\* (line 70 finds it in the cache) returns that same credential, never another
\* one.
C1_SameCredentialOnceAcquired ==
    \A t \in Threads :
        (gotToken[t] /\ Truthy(seen[t]) /\ Truthy(token[t])) => token[t] = seen[t]

\* C1, amended: once token_cache holds a credential and no call that found the
\* cache empty is still in flight, the cache keeps that credential, no call
\* starts acquiring, and every get_token() that returns yields that credential.
C1_SameCredentialOnceSettled ==
    [][Settled =>
         /\ Settled'
         /\ token_cache' = token_cache
         /\ \A t \in Threads :
              (gotToken'[t] /\ ~gotToken[t]) => token'[t] = token_cache]_vars

\* A second request was answered from the settled cache.
C1_Witness ==
    /\ Settled
    /\ \E t \in Threads :
         /\ gotToken[t]
         /\ Truthy(seen[t])
         /\ acq[t] = 0
         /\ token[t] = token_cache

\* C2, as stated: all storage calls that carry a credential carry the same
\* one, racing first requests included.
C2_OneCredentialOnEveryCall ==
    \A t, u \in Threads :
        (/\ calls[t] # <<>>
         /\ calls[u] # <<>>
         /\ Authorized(calls[t][1].auth)
         /\ Authorized(calls[u][1].auth))
        => calls[t][1].auth = calls[u][1].auth

\* C2, amended: every storage call carries, as "Bearer <token>", what its own
\* handler's get_token() returned; for a handler whose get_token() found the
\* credential cached while no acquisition was in flight, that is the credential
\* token_cache holds, then and ever after.
C2_CallCarriesReturnedToken ==
    \A t \in Threads :
        calls[t] # <<>> =>
            /\ calls[t][1].auth = <<"Bearer ", FmtS(token[t])>>
            /\ quiet[t] => calls[t][1].auth = Bearer(token_cache)

\* Two handlers have each sent a storage call with the settled credential.
C2_Witness ==
    \E t, u \in Threads :
        /\ t # u
        /\ calls[t] # <<>>
        /\ calls[u] # <<>>
        /\ quiet[t]
        /\ calls[t][1].auth = Bearer(token_cache)
        /\ calls[u][1].auth = Bearer(token_cache)

\* C3: once token_cache holds a credential, no step sets it back to empty.
C3_NeverBackToUninitialized ==
    [][Truthy(token_cache) => Truthy(token_cache')]_vars

\* C4, as stated: token_cache is written once in a process run: no two
\* get_token() calls both write a credential to it.
C4_WrittenExactlyOnce ==
    Cardinality({t \in Threads : wr[t] > 0 /\ Truthy(result[t])}) <= 1

\* C4, amended: a get_token() call writes token_cache at most once, and only
\* after it found the cache empty and made its exchange; a call that finds a
\* credential cached makes no exchange and no write.
C4_WrittenOnlyOnMiss ==
    \A t \in Threads :
        /\ wr[t] <= 1
        /\ Truthy(seen[t]) => (acq[t] = 0 /\ wr[t] = 0)
        /\ wr[t] = 1 => (~Truthy(seen[t]) /\ acq[t] >= 1)

\* One call has written the credential and another has returned it from the
\* cache without an exchange.
C4_Witness ==
    \E t, u \in Threads :
        /\ wr[t] = 1
        /\ Truthy(result[t])
        /\ gotToken[u]
        /\ seen[u] = result[t]
        /\ acq[u] = 0
        /\ wr[u] = 0

\* C5: a request whose exchange returned no access token is aborted before any
\* storage call.
C5_AuthErrorAbortsRequest ==
    \A t \in Threads :
        (acq[t] >= 1 /\ wr[t] >= 1 /\ result[t] = PyNone) => calls[t] = <<>>

\* C6: in app mode without CLIENT_SECRET or TARGET_USER no remote call is
\* made, neither to the identity provider nor to the storage API.
C6_ConfigErrorBeforeRemoteCall ==
    (AUTH_FLOW = "app" /\ (CLIENT_SECRET = PyNone \/ TARGET_USER = PyNone))
    => (~remote /\ \A t \in Threads : calls[t] = <<>>)

\* C7: a DELETE answered 404 is never reported as a success (the redirect to /).
C7_DeleteMissingIsAnError ==
    \A t \in Threads :
        (route[t] = "/delete" /\ pc[t] = "done" /\ r[t].status = 404)
        => resp[t].kind # "redirect"

\* C8, as stated: every request gets its token and issues exactly one storage
\* call.
C8_ExactlyOneCallPerRequest ==
    \A t \in Threads : pc[t] = "done" => (gotToken[t] /\ Len(calls[t]) = 1)

\* C8, amended: no handler issues a storage call before get_token() returned
\* or more than one; every handler that produces its response has issued
\* exactly one; a request that issues none has faulted before the call: the
\* device flow carried no message, or a form field was missing.
C8_AtMostOneCallAfterToken ==
    \A t \in Threads :
        /\ Len(calls[t]) <= 1
        /\ calls[t] # <<>> => gotToken[t]
        /\ (pc[t] = "done" /\ resp[t].kind # "fault") => Len(calls[t]) = 1
        /\ (pc[t] = "done" /\ calls[t] = <<>>) =>
               /\ resp[t].kind = "fault"
               /\ resp[t].body \in {"KeyError", "BadRequestKeyError"}

\* A download has run to its response with one storage call, while another
\* request faulted without any.
C8_Witness ==
    \E t, u \in Threads :
        /\ pc[t] = "done"
        /\ route[t] = "/download"
        /\ resp[t].kind = "file"
        /\ Len(calls[t]) = 1
        /\ pc[u] = "done"
        /\ resp[u].kind = "fault"
        /\ calls[u] = <<>>

IsAbsolute(p) == p # <<>> /\ p[1] = "/"
HasSlash(s) == \E i \in 1..Len(s) : s[i] = "/"
ChildrenOf(parent) ==
    IF parent # <<>>
    THEN <<GRAPH>> \o drive_prefix \o <<"/root:">> \o parent \o <<":/children">>
    ELSE <<GRAPH>> \o drive_prefix \o <<"/root/children">>

\* The POST of /mkdir targets parent's children with the folder name leaf and
\* conflict behavior "rename".
Targets(call, parent, leaf) ==
    /\ call.method = "POST"
    /\ call.url = ChildrenOf(parent)
    /\ call.json.name = leaf
    /\ call.json.conflictBehavior = "rename"

\* The POST targets the children of the part of s before its last "/" with
\* the part after it as the leaf: s = parent + "/" + leaf, no "/" in leaf.
SplitTargets(call, s) ==
    \E j \in 1..Len(s) :
        /\ s[j] = "/"
        /\ ~HasSlash(SubSeq(s, j + 1, Len(s)))
        /\ Targets(call, SubSeq(s, 1, j - 1), SubSeq(s, j + 1, Len(s)))

\* C9, as stated: the absolute path is split at its last "/" into parent and
\* leaf, and the POST targets the parent's (or the root's) children with the leaf.
C9_SplitAtLastSlash ==
    \A t \in Threads :
        (route[t] = "/mkdir" /\ calls[t] # <<>> /\ IsAbsolute(req[t].path)) =>
            SplitTargets(calls[t][1], req[t].path)

\* C9, amended: the trailing "/" characters of the absolute path are removed
\* first; what is left is split at its last "/" into parent and leaf (with no
\* "/" left, the parent is empty and the leaf is all of it), and the POST
\* targets the parent's (or the root's) children with the leaf.
C9_SplitAfterStrip ==
    \A t \in Threads :
        (route[t] = "/mkdir" /\ calls[t] # <<>> /\ IsAbsolute(req[t].path)) =>
            \E k \in 0..Len(req[t].path) :
                LET p == req[t].path
                    s == SubSeq(p, 1, Len(p) - k)
                IN  /\ \A i \in (Len(s) + 1)..Len(p) : p[i] = "/"
                    /\ s = <<>> \/ s[Len(s)] # "/"
                    /\ IF HasSlash(s) THEN SplitTargets(calls[t][1], s)
                       ELSE Targets(calls[t][1], <<>>, s)

\* A folder path with a trailing "/" under a parent folder has been posted.
C9_Witness ==
    \E t \in Threads :
        /\ route[t] = "/mkdir"
        /\ calls[t] # <<>>
        /\ req[t].path = <<"/", "a", "/">>
        /\ calls[t][1].json.name = <<"a">>

\* C10: a download of p that the remote API answers with the bytes the last
\* upload stored at p returns exactly those bytes.
C10_RoundTrip ==
    \A t \in Threads :
        (route[t] = "/download" /\ pc[t] = "done" /\ r[t].status = 200) =>
            /\ resp[t].kind = "file"
            /\ resp[t].body = r[t].content
====
